---- MODULE Spec2Model ----
(***************************************************************************)
(* A model of lazy_github's split diff viewer                              *)
(* (src/lazy_github/ui/widgets/split_diff_viewer.py) and of the diff       *)
(* parser it calls (lazy_github.lib.diff_parser, described in spec.md      *)
(* section 4.1).                                                           *)
(*                                                                         *)
(* Raw diff text is a sequence of lines; a line is one of the concrete     *)
(* strings below.  Python's str.startswith, str.strip, Path.name and       *)
(* re.match are modelled by tables over these strings.                     *)
(***************************************************************************)
EXTENDS Integers, Sequences, FiniteSets, TLC

VARIABLES
    raw_diff,            \* SplitDiffViewer._raw_diff: the sequence of raw lines
    reviewer_is_author,  \* SplitDiffViewer.reviewer_is_author
    composed,            \* compose() has run
    diff,                \* what compose's parse_diff_from_str call gave
    fallback,            \* top-level Static messages yielded by compose's except branches
    file_sections,       \* the file Collapsibles compose yielded, in order
    panes,               \* UnifiedDiffPane state per rendered hunk, keyed by diff_position
    pending_comments,    \* SplitDiffViewer._pending_comments
    comments_header,     \* _comments_header: "None", "hidden" or "shown"
    comments_container,  \* _comments_container: "None", "hidden" or "shown"
    previews,            \* the CommentPreview widgets mounted in the container
    submit_button,       \* the #submit_review Button: "absent", "enabled", "disabled"
    review_status,       \* value of the #review_status Select
    modal,               \* the AddCommentModal on screen, or <<>>
    in_flight,           \* the create_new_review call being awaited, or <<>>
    next_id,             \* identity of the next CommentData object
    notified,            \* what the last step passed to notify(), or ""
    escaped,             \* the exception that left a handler of the viewer, or ""
    triggers,            \* the TriggerReviewSubmission messages posted and not yet handled
    dv,                  \* the DiffViewerContainer opened on the same raw diff
    settings,            \* a string-list setting: the value given and the value kept
    drafts               \* the pr_drafts cache directory and the last load_pr_draft call

\* the state outside SplitDiffViewer
other_vars == <<dv, settings, drafts>>

vars == <<raw_diff, reviewer_is_author, composed, diff, fallback, file_sections, panes,
          pending_comments, comments_header, comments_container, previews,
          submit_button, review_status, modal, in_flight, next_id,
          notified, escaped, triggers, other_vars>>

----------------------------------------------------------------------------
(* Bounds of the model *)

\* longest raw diff ParseSpec enumerates
MaxRawLen == 5
\* CommentData objects created in one run
MaxComments == 2
\* rows of a UnifiedDiffPane that are visible at once
ViewRows == 2
\* AddCommentContainer objects created in one run of DiffViewerContainer
MaxAdded == 1
\* TriggerReviewSubmission messages that wait for the viewer at once
MaxTriggers == 2

----------------------------------------------------------------------------
(* The raw lines *)

L_DiffFoo  == "diff --git a/foo.py b/foo.py"
L_DiffBar  == "diff --git a/lib/old.py b/lib/bar.py"
L_Index    == "index abc..def 100644"
L_Deleted  == "deleted file mode 100644"
L_Old      == "--- a/foo.py"
L_New      == "+++ b/foo.py"
L_DevNull  == "+++ /dev/null"
L_H1       == "@@ -1,3 +1,4 @@"
L_H2       == "@@ -2 +3 @@ ctx"
L_H3       == "@@ -10,5 +12,7 @@ function_name"
L_HBad     == "@@ garbage"
L_Ctx      == " def f():"
L_Rem      == "-    return 1"
L_Add      == "+    return 2"
L_Add2     == "+    # comment"
L_Plain    == "plain text"

\* str.startswith on the lines above
StartsWith(line, prefix) ==
    CASE prefix = "diff --git"        -> line \in {L_DiffFoo, L_DiffBar}
      [] prefix = "deleted file mode" -> line = L_Deleted
      [] prefix = "@@"                -> line \in {L_H1, L_H2, L_H3, L_HBad}
      [] prefix = "--- "              -> line = L_Old
      [] prefix = "+++ "              -> line \in {L_New, L_DevNull}
      [] prefix = "+"                 -> line \in {L_Add, L_Add2, L_New, L_DevNull}
      [] prefix = "-"                 -> line \in {L_Rem, L_Old}
      [] prefix = " "                 -> line = L_Ctx
      [] OTHER                        -> FALSE

\* str.strip on the lines above
Strip(line) == IF line = L_Ctx THEN "def f():" ELSE line

\* pathlib.Path(filepath).name
PathName(filepath) ==
    CASE filepath = "lib/bar.py" -> "bar.py"
      [] OTHER                   -> filepath

\* re.match(r"@@ -(\d+)(?:,(\d+))? \+(\d+)(?:,(\d+))? @@\s*(.*)", header):
\* the groups of a match; a group that did not take part is <<>>
HunkHeaderMatch(header) ==
    CASE header = L_H1 -> [matched |-> TRUE, old_start |-> 1, old_count |-> <<3>>,
                           new_start |-> 1, new_count |-> <<4>>, context |-> ""]
      [] header = L_H2 -> [matched |-> TRUE, old_start |-> 2, old_count |-> <<>>,
                           new_start |-> 3, new_count |-> <<>>, context |-> "ctx"]
      [] header = L_H3 -> [matched |-> TRUE, old_start |-> 10, old_count |-> <<5>>,
                           new_start |-> 12, new_count |-> <<7>>,
                           context |-> "function_name"]
      [] OTHER         -> [matched |-> FALSE, old_start |-> 0, old_count |-> <<>>,
                           new_start |-> 0, new_count |-> <<>>, context |-> ""]

----------------------------------------------------------------------------
(* The diff parser: lazy_github.lib.diff_parser, after spec.md section 4.1 *)

\* the path of a "diff --git a/... b/..." header, preferring the b/ path
HeaderPath(line) ==
    CASE line = L_DiffFoo -> "foo.py"
      [] line = L_DiffBar -> "lib/bar.py"
      [] OTHER            -> ""

\* a content line of a hunk: prefixed with "+", "-" or " "
IsHunkLine(line) ==
    StartsWith(line, "+") \/ StartsWith(line, "-") \/ StartsWith(line, " ")

\* the position of the ChangedFile of this path in the ordered mapping, or 0
IndexOfPath(files, path) ==
    IF \E i \in 1..Len(files) : files[i].path = path
    THEN CHOOSE i \in 1..Len(files) : files[i].path = path
    ELSE 0

ParserStart ==
    [files |-> <<>>, cur |-> 0, in_hunk |-> FALSE, no_new_path |-> {}, error |-> ""]

\* a diff header opens the section of its path
ParseFileHeader(st, line) ==
    LET path == HeaderPath(line)
        at == IndexOfPath(st.files, path)
        files == IF at = 0
                 THEN Append(st.files, [path |-> path, deleted |-> FALSE, hunks |-> <<>>])
                 ELSE st.files
    IN [st EXCEPT !.files = files,
                  !.cur = IF at = 0 THEN Len(files) ELSE at,
                  !.in_hunk = FALSE]

\* ParseHunkHeader that skips a "@@" line it cannot match
ParseHunkHeader_lenient(st, line, n) ==
    LET m == HunkHeaderMatch(line) IN
    IF st.cur = 0 THEN [st EXCEPT !.error = "InvalidDiffFormat"]
    ELSE IF ~m.matched THEN st
    ELSE [st EXCEPT !.files[st.cur].hunks =
                        Append(@, [header |-> line,
                                   file_start_line |-> m.new_start,
                                   diff_position |-> n,
                                   lines |-> <<>>]),
                    !.in_hunk = TRUE]

\* a hunk header opens a hunk of the current file; n is the number of raw
\* lines up to and including the header
ParseHunkHeader(st, line, n) ==
    LET m == HunkHeaderMatch(line) IN
    IF st.cur = 0 \/ ~m.matched
    THEN [st EXCEPT !.error = "InvalidDiffFormat"]
    ELSE [st EXCEPT !.files[st.cur].hunks =
                        Append(@, [header |-> line,
                                   file_start_line |-> m.new_start,
                                   diff_position |-> n,
                                   lines |-> <<>>]),
                    !.in_hunk = TRUE]

\* ParseHunkLine that keeps the changed lines of a hunk and drops its context
ParseHunkLine_changes_only(st, line) ==
    IF st.in_hunk
    THEN LET k == Len(st.files[st.cur].hunks) IN
         IF StartsWith(line, " ") THEN st
         ELSE [st EXCEPT !.files[st.cur].hunks[k].lines = Append(@, line)]
    ELSE IF st.cur # 0 /\ (StartsWith(line, "--- ") \/ StartsWith(line, "+++ "))
    THEN IF line = L_DevNull
         THEN [st EXCEPT !.no_new_path = @ \cup {st.files[st.cur].path}]
         ELSE st
    ELSE [st EXCEPT !.error = "InvalidDiffFormat"]

\* a "+", "-" or " " line: content of the open hunk, a ---/+++ line of the
\* file's header, or a hunk line before any hunk header
ParseHunkLine(st, line) ==
    IF st.in_hunk
    THEN LET k == Len(st.files[st.cur].hunks) IN
         [st EXCEPT !.files[st.cur].hunks[k].lines = Append(@, line)]
    ELSE IF st.cur # 0 /\ (StartsWith(line, "--- ") \/ StartsWith(line, "+++ "))
    THEN IF line = L_DevNull
         THEN [st EXCEPT !.no_new_path = @ \cup {st.files[st.cur].path}]
         ELSE st
    ELSE [st EXCEPT !.error = "InvalidDiffFormat"]

ParseLine(st, line, n) ==
    IF StartsWith(line, "diff --git") THEN ParseFileHeader(st, line)
    ELSE IF StartsWith(line, "@@") THEN ParseHunkHeader(st, line, n)
    ELSE IF st.cur # 0 /\ StartsWith(line, "deleted file mode")
    THEN [st EXCEPT !.files[st.cur].deleted = TRUE]
    ELSE IF IsHunkLine(line) THEN ParseHunkLine(st, line)
    ELSE st

RECURSIVE ParseLines(_, _, _)
ParseLines(lines, n, st) ==
    IF st.error # "" \/ n > Len(lines) THEN st
    ELSE ParseLines(lines, n + 1, ParseLine(st, lines[n], n))

\* every line of every hunk is a removal, and there is one
AllRemoval(hunks) ==
    /\ hunks # <<>>
    /\ \A h \in 1..Len(hunks) : \A i \in 1..Len(hunks[h].lines) :
           StartsWith(hunks[h].lines[i], "-")

\* parse_diff_from_str: the Diff, or the failure
parse_diff_from_str(raw) ==
    LET st == ParseLines(raw, 1, ParserStart) IN
    IF st.error # "" \/ st.files = <<>>
    THEN [error |-> "InvalidDiffFormat", files |-> <<>>]
    ELSE [error |-> "",
          files |-> [i \in 1..Len(st.files) |->
                        [st.files[i] EXCEPT !.deleted =
                            @ \/ (st.files[i].path \in st.no_new_path
                                  /\ AllRemoval(st.files[i].hunks))]]]

----------------------------------------------------------------------------
(* Header formatting *)

\* the counting loop with "else" in place of "elif line.startswith('-')"
RECURSIVE CountLoop_else(_, _, _, _)
CountLoop_else(lines, i, additions, deletions) ==
    IF i > Len(lines) THEN <<additions, deletions>>
    ELSE IF StartsWith(lines[i], "+")
    THEN CountLoop_else(lines, i + 1, additions + 1, deletions)
    ELSE CountLoop_else(lines, i + 1, additions, deletions + 1)

RECURSIVE CountLoop(_, _, _, _)
CountLoop(lines, i, additions, deletions) ==
    IF i > Len(lines) THEN <<additions, deletions>>
    ELSE IF StartsWith(lines[i], "+") THEN CountLoop(lines, i + 1, additions + 1, deletions)
    ELSE IF StartsWith(lines[i], "-") THEN CountLoop(lines, i + 1, additions, deletions + 1)
    ELSE CountLoop(lines, i + 1, additions, deletions)

\* _count_changes_in_hunk: (additions, deletions)
count_changes_in_hunk(hunk) == CountLoop(hunk.lines, 1, 0, 0)

RECURSIVE TotalChanges(_, _)
TotalChanges(hunks, i) ==
    IF i > Len(hunks) THEN <<0, 0>>
    ELSE LET c == count_changes_in_hunk(hunks[i])
             rest == TotalChanges(hunks, i + 1)
         IN <<c[1] + rest[1], c[2] + rest[2]>>

\* _format_file_header: the name shown, the deleted mark and the counts shown
\* (a count of 0 is not shown)
format_file_header(filepath, deleted, hunks) ==
    IF deleted
    THEN [name |-> PathName(filepath), deleted |-> TRUE, additions |-> 0, deletions |-> 0]
    ELSE LET t == TotalChanges(hunks, 1) IN
         [name |-> PathName(filepath), deleted |-> FALSE,
          additions |-> t[1], deletions |-> t[2]]

\* the line-range calculation with a count left out taken as 0
HunkHeaderRange_zero(m) ==
    LET old_count == IF m.old_count # <<>> THEN m.old_count[1] ELSE 0
        new_count == IF m.new_count # <<>> THEN m.new_count[1] ELSE 0
        new_start == m.new_start
    IN [old_count |-> old_count, new_count |-> new_count,
        new_start |-> new_start, new_end |-> new_start + new_count - 1]

\* the line-range calculation with new_end = new_start + new_count
HunkHeaderRange_end_after(m) ==
    LET old_count == IF m.old_count # <<>> THEN m.old_count[1] ELSE 1
        new_count == IF m.new_count # <<>> THEN m.new_count[1] ELSE 1
        new_start == m.new_start
    IN [old_count |-> old_count, new_count |-> new_count,
        new_start |-> new_start, new_end |-> new_start + new_count]

\* the locals of _format_hunk_header after its line-range calculation
HunkHeaderRange(m) ==
    LET old_count == IF m.old_count # <<>> THEN m.old_count[1] ELSE 1
        new_count == IF m.new_count # <<>> THEN m.new_count[1] ELSE 1
        new_start == m.new_start
    IN [old_count |-> old_count, new_count |-> new_count,
        new_start |-> new_start, new_end |-> new_start + new_count - 1]

\* _format_hunk_header: the location, the counts shown (0: not shown) and the context
format_hunk_header(hunk) ==
    LET m == HunkHeaderMatch(hunk.header) IN
    IF ~m.matched
    THEN [location |-> <<hunk.header>>, additions |-> 0, deletions |-> 0, context |-> ""]
    ELSE LET r == HunkHeaderRange(m)
             c == count_changes_in_hunk(hunk)
         IN [location |-> IF r.new_count = 1
                          THEN <<"Line", r.new_start>>
                          ELSE <<"Lines", r.new_start, r.new_end>>,
             additions |-> c[1], deletions |-> c[2],
             context |-> m.context]

----------------------------------------------------------------------------
(* SplitDiffViewer.compose *)

\* the hunk Collapsibles of one file, each holding a SplitDiffHunk
HunkWidgets(changed_file) ==
    [h \in 1..Len(changed_file.hunks) |->
        [title |-> format_hunk_header(changed_file.hunks[h]),
         hunk |-> changed_file.hunks[h],
         filename |-> changed_file.path]]

\* a file Collapsible whose deleted branch does not leave the loop body
FileSection_no_continue(changed_file) ==
    [path |-> changed_file.path,
     title |-> format_file_header(changed_file.path, changed_file.deleted,
                                  changed_file.hunks),
     collapsed |-> changed_file.deleted,
     removed_notice |-> changed_file.deleted,
     hunk_widgets |-> HunkWidgets(changed_file)]

\* the file Collapsible of one ChangedFile
FileSection(changed_file) ==
    [path |-> changed_file.path,
     title |-> format_file_header(changed_file.path, changed_file.deleted,
                                  changed_file.hunks),
     collapsed |-> changed_file.deleted,
     removed_notice |-> changed_file.deleted,
     hunk_widgets |-> IF changed_file.deleted THEN <<>> ELSE HunkWidgets(changed_file)]

\* the diff_position of every hunk that got a SplitDiffHunk
RenderedHunks(sections) ==
    UNION {{sections[f].hunk_widgets[h].hunk.diff_position :
                h \in 1..Len(sections[f].hunk_widgets)} : f \in 1..Len(sections)}

\* before compose ran there is no parse result
NotParsed == [error |-> "not parsed", files |-> <<>>]

InitWith(raws, authors) ==
    /\ raw_diff \in raws
    /\ reviewer_is_author \in authors
    /\ composed = FALSE
    /\ diff = NotParsed
    /\ fallback = <<>>
    /\ file_sections = <<>>
    /\ panes = <<>>
    /\ pending_comments = <<>>
    /\ comments_header = "None"
    /\ comments_container = "None"
    /\ previews = <<>>
    /\ submit_button = "absent"
    /\ review_status = "COMMENTED"
    /\ modal = <<>>
    /\ in_flight = <<>>
    /\ next_id = 1
    /\ notified = ""
    /\ escaped = ""
    /\ triggers = <<>>

\* the call of parse_diff_from_str in compose: it returns the Diff, raises
\* InvalidDiffFormat or, when unexpected, raises another exception
parse_call(raw, unexpected) ==
    IF unexpected THEN [error |-> "Exception", files |-> <<>>]
    ELSE parse_diff_from_str(raw)

\* compose whose except branches do not return
compose_no_return(unexpected) ==
    /\ ~composed
    /\ composed' = TRUE
    /\ diff' = parse_call(raw_diff, unexpected)
    /\ fallback' = IF diff'.error = "InvalidDiffFormat"
                   THEN <<"error parsing diff - please view on github">>
                   ELSE IF diff'.error = "Exception" THEN <<"unexpected error">>
                   ELSE fallback
    /\ file_sections' = [f \in 1..Len(diff'.files) |-> FileSection(diff'.files[f])]
    /\ panes' = [p \in RenderedHunks(file_sections') |->
                    [current_line |-> 0, scroll_y |-> 0]]
    /\ comments_header' = "hidden"
    /\ comments_container' = "hidden"
    /\ submit_button' = "enabled"
    /\ notified' = ""
    /\ UNCHANGED <<triggers, other_vars, raw_diff, reviewer_is_author, pending_comments, previews,
                   review_status, modal, in_flight, next_id, escaped>>

compose(unexpected) ==
    /\ ~composed
    /\ composed' = TRUE
    /\ diff' = parse_call(raw_diff, unexpected)
    /\ IF diff'.error = "InvalidDiffFormat"
       THEN /\ fallback' = <<"error parsing diff - please view on github">>
            /\ UNCHANGED <<file_sections, panes, comments_header, comments_container,
                           submit_button>>
       ELSE IF diff'.error = "Exception"
       THEN /\ fallback' = <<"unexpected error">>
            /\ UNCHANGED <<file_sections, panes, comments_header, comments_container,
                           submit_button>>
       ELSE /\ file_sections' = [f \in 1..Len(diff'.files) |-> FileSection(diff'.files[f])]
            /\ panes' = [p \in RenderedHunks(file_sections') |->
                            [current_line |-> 0, scroll_y |-> 0]]
            /\ comments_header' = "hidden"
            /\ comments_container' = "hidden"
            /\ submit_button' = "enabled"
            /\ UNCHANGED fallback
    /\ notified' = ""
    /\ UNCHANGED <<triggers, other_vars, raw_diff, reviewer_is_author, pending_comments, previews,
                   review_status, modal, in_flight, next_id, escaped>>

----------------------------------------------------------------------------
(* UnifiedDiffPane *)

\* the hunk a pane shows
PaneHunk(p) ==
    LET f == CHOOSE f \in 1..Len(file_sections) :
                 \E h \in 1..Len(file_sections[f].hunk_widgets) :
                     file_sections[f].hunk_widgets[h].hunk.diff_position = p
        h == CHOOSE h \in 1..Len(file_sections[f].hunk_widgets) :
                 file_sections[f].hunk_widgets[h].hunk.diff_position = p
    IN file_sections[f].hunk_widgets[h]

\* the largest scroll offset of a pane: the rows that do not fit
MaxScrollY(lines) == IF Len(lines) > ViewRows THEN Len(lines) - ViewRows ELSE 0

\* watch_scroll_y: the line at the top of the viewport becomes the current line
watch_scroll_y(pane, lines, new_value) ==
    IF 0 <= new_value /\ new_value < Len(lines)
    THEN [pane EXCEPT !.current_line = new_value]
    ELSE pane

\* Widget.scroll_relative / a manual scroll: scroll_y is clamped, and its
\* watcher runs when it changed
ScrollRelative(pane, lines, y) ==
    LET target == pane.scroll_y + y
        clamped == IF target < 0 THEN 0
                   ELSE IF target > MaxScrollY(lines) THEN MaxScrollY(lines)
                   ELSE target
    IN IF clamped = pane.scroll_y THEN pane
       ELSE watch_scroll_y([pane EXCEPT !.scroll_y = clamped], lines, clamped)

\* the viewer handles one message at a time: it is idle when it awaits
\* neither the modal nor create_new_review
ViewerIdle == modal = <<>> /\ in_flight = <<>>

\* a key or scroll event of a pane changes the pane alone
PaneEventOnly ==
    /\ notified' = ""
    /\ UNCHANGED <<triggers, other_vars, raw_diff, reviewer_is_author, composed, diff, fallback, file_sections,
                   pending_comments, comments_header, comments_container, previews,
                   submit_button, review_status, modal, in_flight, next_id, escaped>>

\* action_line_down whose guard is current_line < len(self.lines)
action_line_down_off_by_one(p) ==
    /\ composed /\ modal = <<>>
    /\ LET lines == PaneHunk(p).hunk.lines IN
       panes' = [panes EXCEPT ![p] =
                    IF @.current_line < Len(lines)
                    THEN ScrollRelative([@ EXCEPT !.current_line = @ + 1], lines, 1)
                    ELSE @]
    /\ PaneEventOnly

action_line_down(p) ==
    /\ composed /\ modal = <<>>
    /\ LET lines == PaneHunk(p).hunk.lines IN
       panes' = [panes EXCEPT ![p] =
                    IF @.current_line < Len(lines) - 1
                    THEN ScrollRelative([@ EXCEPT !.current_line = @ + 1], lines, 1)
                    ELSE @]
    /\ PaneEventOnly

action_line_up(p) ==
    /\ composed /\ modal = <<>>
    /\ LET lines == PaneHunk(p).hunk.lines IN
       panes' = [panes EXCEPT ![p] =
                    IF @.current_line > 0
                    THEN ScrollRelative([@ EXCEPT !.current_line = @ - 1], lines, -1)
                    ELSE @]
    /\ PaneEventOnly

\* the user scrolls the pane by one row
manual_scroll(p, y) ==
    /\ composed /\ modal = <<>>
    /\ panes' = [panes EXCEPT ![p] = ScrollRelative(@, PaneHunk(p).hunk.lines, y)]
    /\ panes' # panes
    /\ PaneEventOnly

\* action_add_comment that re-anchors the hunk it posts at its file line
action_add_comment_rebased(p) ==
    /\ composed /\ ViewerIdle
    /\ next_id <= MaxComments
    /\ LET w == PaneHunk(p)
           current_line == panes[p].current_line
           line_text == IF current_line < Len(w.hunk.lines)
                        THEN Strip(w.hunk.lines[current_line + 1])
                        ELSE ""
       IN modal' = <<[hunk |-> [w.hunk EXCEPT !.diff_position = @ + w.hunk.file_start_line],
                      filename |-> w.filename,
                      line_number |-> current_line, line_text |-> line_text]>>
    /\ notified' = ""
    /\ UNCHANGED <<triggers, other_vars, raw_diff, reviewer_is_author, composed, diff, fallback, file_sections,
                   panes, pending_comments, comments_header, comments_container,
                   previews, submit_button, review_status, in_flight, next_id, escaped>>

\* action_add_comment posts TriggerAddComment; on_trigger_add_comment pushes
\* the modal and waits for its result
action_add_comment(p) ==
    /\ composed /\ ViewerIdle
    /\ next_id <= MaxComments
    /\ LET w == PaneHunk(p)
           current_line == panes[p].current_line
           line_text == IF current_line < Len(w.hunk.lines)
                        THEN Strip(w.hunk.lines[current_line + 1])
                        ELSE ""
       IN modal' = <<[hunk |-> w.hunk, filename |-> w.filename,
                      line_number |-> current_line, line_text |-> line_text]>>
    /\ notified' = ""
    /\ UNCHANGED <<triggers, other_vars, raw_diff, reviewer_is_author, composed, diff, fallback, file_sections,
                   panes, pending_comments, comments_header, comments_container,
                   previews, submit_button, review_status, in_flight, next_id, escaped>>

----------------------------------------------------------------------------
(* AddCommentModal and the rest of on_trigger_add_comment *)

\* str.strip of the comment texts: empty for a blank text
IsBlank(comment_text) == comment_text \in {"", "  "}

CommentTexts == {"LGTM", "  "}

\* _submit_comment that dismisses with whatever text the TextArea holds
submit_comment_unchecked(comment_text) ==
    /\ modal # <<>>
    /\ LET comment == [id |-> next_id,
                       hunk |-> modal[1].hunk,
                       filename |-> modal[1].filename,
                       line_number |-> modal[1].line_number,
                       line_text |-> modal[1].line_text,
                       comment_text |-> comment_text]
       IN /\ modal' = <<>>
          /\ next_id' = next_id + 1
          /\ pending_comments' = Append(pending_comments, comment)
          /\ comments_header' =
                 IF Len(pending_comments') = 1 /\ comments_header # "None"
                 THEN "shown" ELSE comments_header
          /\ comments_container' =
                 IF Len(pending_comments') = 1 /\ comments_container # "None"
                 THEN "shown" ELSE comments_container
          /\ IF comments_container # "None"
             THEN /\ previews' = Append(previews, comment)
                  /\ notified' = "New comment added"
             ELSE /\ notified' = ""
                  /\ UNCHANGED previews
    /\ UNCHANGED <<triggers, other_vars, raw_diff, reviewer_is_author, composed, diff, fallback, file_sections,
                   panes, submit_button, review_status, in_flight, escaped>>

\* _submit_comment; on a dismissal with a comment, on_trigger_add_comment
\* appends it, shows the comments section and mounts the preview
submit_comment(comment_text) ==
    /\ modal # <<>>
    /\ IF IsBlank(comment_text)
       THEN /\ notified' = "Comment cannot be empty!"
            /\ UNCHANGED <<modal, pending_comments, comments_header,
                           comments_container, previews, next_id>>
       ELSE LET comment == [id |-> next_id,
                            hunk |-> modal[1].hunk,
                            filename |-> modal[1].filename,
                            line_number |-> modal[1].line_number,
                            line_text |-> modal[1].line_text,
                            comment_text |-> comment_text]
            IN /\ modal' = <<>>
               /\ next_id' = next_id + 1
               /\ pending_comments' = Append(pending_comments, comment)
               /\ comments_header' =
                      IF Len(pending_comments') = 1 /\ comments_header # "None"
                      THEN "shown" ELSE comments_header
               /\ comments_container' =
                      IF Len(pending_comments') = 1 /\ comments_container # "None"
                      THEN "shown" ELSE comments_container
               /\ IF comments_container # "None"
                  THEN /\ previews' = Append(previews, comment)
                       /\ notified' = "New comment added"
                  ELSE /\ notified' = ""
                       /\ UNCHANGED previews
    /\ UNCHANGED <<triggers, other_vars, raw_diff, reviewer_is_author, composed, diff, fallback, file_sections,
                   panes, submit_button, review_status, in_flight, escaped>>

\* cancel_comment / action_close: dismiss(None)
cancel_comment ==
    /\ modal # <<>>
    /\ modal' = <<>>
    /\ notified' = ""
    /\ UNCHANGED <<triggers, other_vars, raw_diff, reviewer_is_author, composed, diff, fallback, file_sections,
                   panes, pending_comments, comments_header, comments_container,
                   previews, submit_button, review_status, in_flight, next_id, escaped>>

----------------------------------------------------------------------------
(* CommentPreview.remove_comment and on_comment_deleted *)

\* list.remove / the first match of the preview loop: CommentData has no
\* __eq__, so objects are compared by identity
RemoveFirst(seq, id) ==
    IF \E i \in 1..Len(seq) : seq[i].id = id
    THEN LET at == CHOOSE i \in 1..Len(seq) :
                       seq[i].id = id /\ \A j \in 1..(i - 1) : seq[j].id # id
         IN SubSeq(seq, 1, at - 1) \o SubSeq(seq, at + 1, Len(seq))
    ELSE seq

\* on_comment_deleted that hides the comments section at every deletion
on_comment_deleted_always_hides(i) ==
    /\ composed /\ ViewerIdle
    /\ i \in 1..Len(previews)
    /\ LET comment == previews[i] IN
       /\ pending_comments' = RemoveFirst(pending_comments, comment.id)
       /\ previews' = RemoveFirst(previews, comment.id)
    /\ comments_header' = IF comments_header # "None" THEN "hidden" ELSE comments_header
    /\ comments_container' =
           IF comments_container # "None" THEN "hidden" ELSE comments_container
    /\ notified' = ""
    /\ UNCHANGED <<triggers, other_vars, raw_diff, reviewer_is_author, composed, diff, fallback, file_sections,
                   panes, submit_button, review_status, modal, in_flight, next_id, escaped>>

on_comment_deleted(i) ==
    /\ composed /\ ViewerIdle
    /\ i \in 1..Len(previews)
    /\ LET comment == previews[i] IN
       /\ pending_comments' = RemoveFirst(pending_comments, comment.id)
       /\ previews' = RemoveFirst(previews, comment.id)
    /\ comments_header' =
           IF Len(pending_comments') = 0 /\ comments_header # "None"
           THEN "hidden" ELSE comments_header
    /\ comments_container' =
           IF Len(pending_comments') = 0 /\ comments_container # "None"
           THEN "hidden" ELSE comments_container
    /\ notified' = ""
    /\ UNCHANGED <<triggers, other_vars, raw_diff, reviewer_is_author, composed, diff, fallback, file_sections,
                   panes, submit_button, review_status, modal, in_flight, next_id, escaped>>

----------------------------------------------------------------------------
(* SubmitReview and on_trigger_review_submission *)

ReviewStates == {"COMMENTED", "APPROVED", "NoSelection"}

\* the user changes the #review_status Select (absent when the reviewer is
\* the author)
select_review_status(s) ==
    /\ composed /\ ViewerIdle
    /\ submit_button # "absent" /\ ~reviewer_is_author
    /\ s # review_status
    /\ review_status' = s
    /\ notified' = ""
    /\ UNCHANGED <<triggers, other_vars, raw_diff, reviewer_is_author, composed, diff, fallback, file_sections,
                   panes, pending_comments, comments_header, comments_container,
                   previews, submit_button, modal, in_flight, next_id, escaped>>

\* the position without the final + 1
comment_position_zero_based(comment_data) ==
    comment_data.hunk.diff_position + comment_data.line_number

\* the position of the hunk header for every line of the hunk
comment_position_of_hunk(comment_data) ==
    comment_data.hunk.diff_position + 1

\* the position sent for a comment
comment_position(comment_data) ==
    comment_data.hunk.diff_position + comment_data.line_number + 1

\* the comments of the review request
ReviewComments(pending) ==
    [i \in 1..Len(pending) |->
        [path |-> pending[i].filename,
         body |-> pending[i].comment_text,
         position |-> comment_position(pending[i])]]

\* SubmitReview.trigger_review_submission: the #submit_review Button was
\* pressed and the message is posted towards the viewer. A disabled Button
\* sends no Pressed, and the AddCommentModal takes the input while it is shown
trigger_review_submission ==
    /\ composed /\ modal = <<>>
    /\ submit_button = "enabled"
    /\ Len(triggers) < MaxTriggers
    /\ triggers' = Append(triggers, [waited |-> FALSE])
    /\ notified' = ""
    /\ UNCHANGED <<other_vars, raw_diff, reviewer_is_author, composed, diff, fallback, file_sections,
                   panes, pending_comments, comments_header, comments_container,
                   previews, submit_button, review_status, modal, in_flight, next_id, escaped>>

\* the messages that stay in the queue of the viewer while it awaits
\* create_new_review
Waiting(queue) == [i \in 1..Len(queue) |-> [waited |-> TRUE]]

\* the finally clause: the button found at the start is enabled again
reenable(button) == IF button = "absent" THEN "absent" ELSE "enabled"

\* the handler up to its await of create_new_review, or up to its return
on_trigger_review_submission ==
    /\ composed /\ ViewerIdle
    /\ triggers # <<>>
    /\ IF submit_button = "disabled"
       THEN \* already submitting, ignore
            /\ triggers' = Tail(triggers)
            /\ notified' = ""
            /\ UNCHANGED <<submit_button, in_flight>>
       ELSE LET review_state == IF reviewer_is_author THEN "COMMENTED" ELSE review_status IN
            IF review_state = "NoSelection"
            THEN /\ notified' = "Please select a status for the new review!"
                 /\ triggers' = Tail(triggers)
                 /\ submit_button' = reenable(submit_button)
                 /\ UNCHANGED in_flight
            ELSE LET call == [review_state |-> review_state,
                              review_body |-> "",
                              comments |-> ReviewComments(pending_comments)]
                 IN /\ submit_button' = IF submit_button = "absent" THEN "absent" ELSE "disabled"
                    /\ in_flight' = Append(in_flight, call)
                    /\ triggers' = Waiting(Tail(triggers))
                    /\ notified' = ""
    /\ UNCHANGED <<other_vars, raw_diff, reviewer_is_author, composed, diff, fallback, file_sections,
                   panes, pending_comments, comments_header, comments_container,
                   previews, review_status, modal, next_id, escaped>>

ReviewOutcomes == {"created", "none", "raised"}

\* create_new_review returns or raises, and the button stays disabled when it
\* raised
review_submission_done_no_finally(outcome) ==
    /\ in_flight # <<>>
    /\ in_flight' = Tail(in_flight)
    /\ submit_button' = IF outcome = "raised" THEN submit_button ELSE reenable(submit_button)
    /\ notified' = IF outcome = "created" THEN "New review created!" ELSE ""
    /\ escaped' = IF outcome = "raised" THEN "create_new_review" ELSE escaped
    /\ UNCHANGED <<triggers, other_vars, raw_diff, reviewer_is_author, composed, diff, fallback, file_sections,
                   panes, pending_comments, comments_header, comments_container,
                   previews, review_status, modal, next_id>>

\* create_new_review returns or raises; the finally clause re-enables the button
review_submission_done(outcome) ==
    /\ in_flight # <<>>
    /\ in_flight' = Tail(in_flight)
    /\ submit_button' = reenable(submit_button)
    /\ notified' = IF outcome = "created" THEN "New review created!" ELSE ""
    /\ escaped' = IF outcome = "raised" THEN "create_new_review" ELSE escaped
    /\ UNCHANGED <<triggers, other_vars, raw_diff, reviewer_is_author, composed, diff, fallback, file_sections,
                   panes, pending_comments, comments_header, comments_container,
                   previews, review_status, modal, next_id>>

----------------------------------------------------------------------------
(* DiffViewerContainer (src/lazy_github/ui/widgets/diff_viewer.py) *)

\* the state of SplitDiffViewer, which no step of DiffViewerContainer changes
split_vars == <<raw_diff, reviewer_is_author, composed, diff, fallback, file_sections,
                panes, pending_comments, comments_header, comments_container,
                previews, submit_button, review_status, modal, in_flight, next_id,
                notified, escaped, triggers>>

\* unidiff's PatchSet reads one line: a "diff --git" header opens a
\* PatchedFile (one per header, also for a path seen before), a hunk header
\* opens a Hunk of the last file and fails without one, the lines that follow
\* are the hunk's
PatchSetLine(st, line) ==
    IF StartsWith(line, "diff --git")
    THEN [st EXCEPT !.files = Append(@, [path |-> HeaderPath(line), hunks |-> <<>>]),
                    !.in_hunk = FALSE]
    ELSE IF StartsWith(line, "@@") /\ HunkHeaderMatch(line).matched
    THEN IF st.files = <<>>
         THEN [st EXCEPT !.error = "UnidiffParseError"]
         ELSE [st EXCEPT !.files[Len(st.files)].hunks =
                             Append(@, [header |-> line,
                                        source_start |-> HunkHeaderMatch(line).old_start,
                                        target_start |-> HunkHeaderMatch(line).new_start,
                                        lines |-> <<>>]),
                         !.in_hunk = TRUE]
    ELSE IF st.in_hunk /\ IsHunkLine(line)
    THEN [st EXCEPT !.files[Len(st.files)].hunks[Len(st.files[Len(st.files)].hunks)].lines =
                        Append(@, line)]
    ELSE st

RECURSIVE PatchSetLines(_, _, _)
PatchSetLines(lines, n, st) ==
    IF st.error # "" \/ n > Len(lines) THEN st
    ELSE PatchSetLines(lines, n + 1, PatchSetLine(st, lines[n]))

\* PatchSet(self._raw_diff), for raw diffs whose hunks have the lengths
\* their headers give
PatchSet(raw) ==
    LET st == PatchSetLines(raw, 1, [files |-> <<>>, in_hunk |-> FALSE, error |-> ""])
    IN [error |-> st.error, files |-> IF st.error = "" THEN st.files ELSE <<>>]

\* hunk.source_lines() and hunk.target_lines()
HunkSideLines(hunk, side) ==
    IF side = "source"
    THEN SelectSeq(hunk.lines, LAMBDA l : ~StartsWith(l, "+"))
    ELSE SelectSeq(hunk.lines, LAMBDA l : ~StartsWith(l, "-"))

\* the file loop of compose without its files_handled test
RECURSIVE DiffViewerSections_no_skip(_, _, _)
DiffViewerSections_no_skip(files, i, files_handled) ==
    IF i > Len(files) THEN <<>>
    ELSE <<files[i]>> \o DiffViewerSections_no_skip(files, i + 1, files_handled)

\* the file loop of compose: one Collapsible per path not handled before
RECURSIVE DiffViewerSections(_, _, _)
DiffViewerSections(files, i, files_handled) ==
    IF i > Len(files) THEN <<>>
    ELSE IF files[i].path \in files_handled
    THEN DiffViewerSections(files, i + 1, files_handled)
    ELSE <<files[i]>> \o DiffViewerSections(files, i + 1, files_handled \cup {files[i].path})

\* DiffViewerContainer after __init__
DvInit ==
    [composed |-> FALSE, label |-> <<>>, sections |-> <<>>, submit_review |-> FALSE,
     review_status |-> "COMMENTED", comments |-> <<>>, request |-> <<>>,
     next_id |-> 1, notified |-> "", escaped |-> ""]

\* DiffViewerContainer.compose
dv_compose ==
    /\ ~dv.composed
    /\ LET patch == PatchSet(raw_diff) IN
       dv' = IF patch.error # ""
             THEN [dv EXCEPT !.composed = TRUE,
                             !.label = <<"Error parsing diff - please view on Github">>]
             ELSE [dv EXCEPT !.composed = TRUE,
                             !.sections = DiffViewerSections(patch.files, 1, {}),
                             !.submit_review = TRUE]
    /\ UNCHANGED <<split_vars, settings, drafts>>

HunkSides == {"source", "target"}

\* DiffHunkViewer.action_add_comment and show_comment_for_hunk: the cursor is
\* on a row of the TextArea, whose text ends with a newline when the side
\* has lines, so that the last row is below the last line
dv_show_comment_for_hunk(f, h, side, selection_start) ==
    /\ dv.composed
    /\ dv.next_id <= MaxAdded
    /\ f \in 1..Len(dv.sections) /\ h \in 1..Len(dv.sections[f].hunks)
    /\ LET hunk == dv.sections[f].hunks[h]
           lines == HunkSideLines(hunk, side)
       IN /\ selection_start \in 0..Len(lines)
          /\ dv' = IF lines # <<>> /\ selection_start >= Len(lines)
                   THEN [dv EXCEPT !.escaped = "IndexError", !.notified = ""]
                   ELSE [dv EXCEPT
                            !.comments =
                                Append(@, [id |-> dv.next_id,
                                           hunk |-> hunk,
                                           side |-> side,
                                           filename |-> dv.sections[f].path,
                                           selection_start |-> selection_start,
                                           diff_to_comment_on |->
                                               IF lines # <<>>
                                               THEN Strip(lines[selection_start + 1])
                                               ELSE "",
                                           text |-> "",
                                           is_mounted |-> TRUE]),
                            !.next_id = @ + 1,
                            !.notified = ""]
    /\ UNCHANGED <<split_vars, settings, drafts>>

\* the user edits the TextArea of a pending comment
dv_edit_comment(i, text) ==
    /\ i \in 1..Len(dv.comments)
    /\ dv.comments[i].is_mounted
    /\ text # dv.comments[i].text
    /\ dv' = [dv EXCEPT !.comments[i].text = text, !.notified = ""]
    /\ UNCHANGED <<split_vars, settings, drafts>>

\* AddCommentContainer.remove_comment: CommentRemoved is posted and the
\* container removed; no handler of DiffViewerContainer is registered for
\* CommentRemoved (handle_comment_removed is neither on_comment_removed nor
\* decorated with @on)
dv_remove_comment(i) ==
    /\ i \in 1..Len(dv.comments)
    /\ dv.comments[i].is_mounted
    /\ dv' = [dv EXCEPT !.comments[i].is_mounted = FALSE, !.notified = ""]
    /\ UNCHANGED <<split_vars, settings, drafts>>

\* the user changes the #review_status Select
dv_select_review_status(s) ==
    /\ dv.submit_review /\ ~reviewer_is_author
    /\ s # dv.review_status
    /\ dv' = [dv EXCEPT !.review_status = s, !.notified = ""]
    /\ UNCHANGED <<split_vars, settings, drafts>>

\* the position DiffViewerContainer.submit_review gives a comment
dv_position(comment_field) ==
    IF comment_field.side = "source"
    THEN comment_field.hunk.source_start + comment_field.selection_start + 1
    ELSE comment_field.hunk.target_start + comment_field.selection_start + 1

\* the comments loop of submit_review
RECURSIVE DvReviewComments(_, _)
DvReviewComments(added, i) ==
    IF i > Len(added) THEN <<>>
    ELSE IF added[i].text = "" \/ ~added[i].is_mounted
    THEN DvReviewComments(added, i + 1)
    ELSE <<[path |-> added[i].filename,
            body |-> added[i].text,
            position |-> dv_position(added[i]),
            side |-> IF added[i].side = "source" THEN "LEFT" ELSE "RIGHT"]>>
             \o DvReviewComments(added, i + 1)

\* submit_review that does not look at the selection
dv_submit_review_any_status(outcome) ==
    /\ dv.submit_review
    /\ dv' = [dv EXCEPT
                 !.request = <<[review_state |-> dv.review_status,
                                review_body |-> "",
                                comments |-> DvReviewComments(dv.comments, 1)]>>,
                 !.notified = IF outcome = "created" THEN "New review created!" ELSE "",
                 !.escaped = IF outcome = "raised" THEN "create_new_review" ELSE @]
    /\ UNCHANGED <<split_vars, settings, drafts>>

\* DiffViewerContainer.submit_review
dv_submit_review(outcome) ==
    /\ dv.submit_review
    /\ LET review_state == IF reviewer_is_author THEN "COMMENTED" ELSE dv.review_status IN
       dv' = IF review_state = "NoSelection"
             THEN [dv EXCEPT !.notified = "Please select a status for the new review!"]
             ELSE [dv EXCEPT
                      !.request = <<[review_state |-> review_state,
                                     review_body |-> "",
                                     comments |-> DvReviewComments(dv.comments, 1)]>>,
                      !.notified = IF outcome = "created" THEN "New review created!" ELSE "",
                      !.escaped = IF outcome = "raised" THEN "create_new_review" ELSE @]
    /\ UNCHANGED <<split_vars, settings, drafts>>

----------------------------------------------------------------------------
(* String-list settings: lazy_github.lib.config._parse_string_list, after *)
(* its tests in src/tests/test_config.py and src/tests/test_settings_ui.py *)

\* a comma-separated string is the sequence of its pieces between the
\* commas; str.strip on the pieces
StripPiece(piece) ==
    CASE piece \in {" repo1", " repo1 ", "  repo1  "} -> "repo1"
      [] piece \in {" repo2", "  repo2  "}            -> "repo2"
      [] piece = " repo3"                             -> "repo3"
      [] piece = " gizmo385/discord.clj"              -> "gizmo385/discord.clj"
      [] piece \in {" ", "  "}                        -> ""
      [] OTHER                                        -> piece

\* the stripped pieces that are not empty
StringItems(pieces) == {StripPiece(pieces[i]) : i \in 1..Len(pieces)} \ {""}

\* the lists that hold each element of a set once: the orders list(set) can give
Orderings(S) ==
    {seq \in [1..Cardinality(S) -> S] : \A i, j \in 1..Cardinality(S) :
                                             seq[i] = seq[j] => i = j}

\* _parse_string_list that keeps the pieces as they are
parse_string_list_no_strip(v) ==
    IF v.kind = "list" THEN {v.items}
    ELSE Orderings({v.pieces[i] : i \in 1..Len(v.pieces)} \ {""})

\* _parse_string_list: the values it can return
parse_string_list(v) ==
    IF v.kind = "list" THEN {v.items}
    ELSE Orderings(StringItems(v.pieces))

SettingsInit == [input |-> [kind |-> "list", items |-> <<>>], value |-> <<>>, parsed |-> FALSE]

\* the field validator of a string-list setting runs on the value given
validate_setting ==
    /\ ~settings.parsed
    /\ \E value \in parse_string_list(settings.input) :
           settings' = [settings EXCEPT !.value = value, !.parsed = TRUE]
    /\ UNCHANGED <<split_vars, dv, drafts>>

----------------------------------------------------------------------------
(* PR drafts (src/lazy_github/lib/pr_drafts.py) *)

\* repository names; two of them differ only in where the "/" stands
Repos == {"a/b_c", "a_b/c", "x/y"}

\* get_draft_path: repo_full_name.replace("/", "_"), the name of the draft
\* file in the pr_drafts directory
get_draft_path(repo_full_name) ==
    CASE repo_full_name \in {"a/b_c", "a_b/c"} -> "a_b_c.json"
      [] repo_full_name = "x/y"                -> "x_y.json"

DraftFiles == {get_draft_path(r) : r \in Repos}

\* what a draft file can be: absent, not readable, not JSON, JSON that is no
\* object, an object without the fields of PullRequestDraft, or a draft
NoFile == [state |-> "absent", draft |-> <<>>]

DamagedStates == {"unreadable", "invalid_json", "not_object", "wrong_fields"}

DraftsInit ==
    [dir_accessible |-> TRUE, files |-> [f \in DraftFiles |-> NoFile], loaded |-> <<>>]

\* Path.exists: stat of the path; an OSError other than not-found (here
\* permission denied on the directory) is raised again
PathExists(d, path) ==
    IF ~d.dir_accessible THEN "PermissionError"
    ELSE IF d.files[path].state = "absent" THEN "False"
    ELSE "True"

\* load_pr_draft: the exception that leaves it, or its return value
\* (<<>> for None)
load_pr_draft_result(d, repo_full_name) ==
    LET draft_path == get_draft_path(repo_full_name)
        exists == PathExists(d, draft_path)
    IN IF exists = "PermissionError" THEN [raised |-> "PermissionError", value |-> <<>>]
       ELSE IF exists = "False" THEN [raised |-> "", value |-> <<>>]
       ELSE IF d.files[draft_path].state = "draft"
       THEN [raised |-> "", value |-> d.files[draft_path].draft]
       ELSE [raised |-> "", value |-> <<>>]

load_pr_draft(repo_full_name) ==
    /\ drafts' = [drafts EXCEPT !.loaded =
                      <<[repo_full_name |-> repo_full_name,
                         result |-> load_pr_draft_result(drafts, repo_full_name)]>>]
    /\ UNCHANGED <<split_vars, dv, settings>>

\* save_pr_draft: a failure of mkdir or write_text is logged
save_pr_draft(draft) ==
    /\ LET draft_path == get_draft_path(draft.repo_full_name) IN
       drafts' = IF ~drafts.dir_accessible \/ drafts.files[draft_path].state = "unreadable"
                 THEN drafts
                 ELSE [drafts EXCEPT !.files[draft_path] =
                                         [state |-> "draft", draft |-> <<draft>>]]
    /\ drafts' # drafts
    /\ UNCHANGED <<split_vars, dv, settings>>

\* clear_pr_draft: a failure of exists or unlink is logged
clear_pr_draft(repo_full_name) ==
    /\ LET draft_path == get_draft_path(repo_full_name) IN
       drafts' = IF PathExists(drafts, draft_path) = "True"
                 THEN [drafts EXCEPT !.files[draft_path] = NoFile]
                 ELSE drafts
    /\ drafts' # drafts
    /\ UNCHANGED <<split_vars, dv, settings>>

\* something else damages a draft file
damage_draft_file(path, state) ==
    /\ drafts.dir_accessible
    /\ drafts.files[path].state # "absent"
    /\ drafts.files[path].state # state
    /\ drafts' = [drafts EXCEPT !.files[path] = [state |-> state, draft |-> <<>>]]
    /\ UNCHANGED <<split_vars, dv, settings>>

\* something else changes the permissions of the pr_drafts directory
chmod_drafts_directory ==
    /\ drafts' = [drafts EXCEPT !.dir_accessible = ~@]
    /\ UNCHANGED <<split_vars, dv, settings>>

----------------------------------------------------------------------------
(* The specifications *)

RECURSIVE SeqsUpTo(_, _)
SeqsUpTo(S, n) ==
    IF n = 0 THEN {<<>>}
    ELSE LET shorter == SeqsUpTo(S, n - 1) IN
         shorter \cup {Append(s, x) : s \in shorter, x \in S}

\* the lines the raw diffs are enumerated over
EnumLines == {L_DiffFoo, L_DiffBar, L_Deleted, L_H2, L_HBad,
              L_Ctx, L_Rem, L_Add, L_Plain}

\* every raw diff of at most n lines
RawDiffs(n) == SeqsUpTo(EnumLines, n)

\* the diffs the viewer is opened on: a file of two hunks, a hunk without
\* lines, a deleted file, and three malformed texts
ViewerDiffs ==
    { <<L_DiffFoo, L_H2, L_Add, L_H3, L_Rem, L_Ctx, L_Add2>>,
      <<L_DiffFoo, L_H1, L_DiffBar, L_H2, L_Add>>,
      <<L_DiffBar, L_Deleted, L_H1, L_Rem, L_DiffFoo, L_H2, L_Ctx>>,
      <<L_Plain, L_Plain>>,
      <<L_DiffFoo, L_HBad, L_Add>>,
      <<L_DiffFoo, L_Add, L_H1>> }

\* the example of spec.md section 8 and a removal to /dev/null
ExampleDiffs ==
    { <<L_DiffFoo, L_Index, L_Old, L_New, L_H1, L_Ctx, L_Rem, L_Add, L_Add2>>,
      <<L_DiffFoo, L_Old, L_DevNull, L_H1, L_Rem>> }

\* nothing but SplitDiffViewer is used
OthersIdle == dv = DvInit /\ settings = SettingsInit /\ drafts = DraftsInit

InitParse ==
    /\ InitWith(RawDiffs(MaxRawLen) \cup ViewerDiffs \cup ExampleDiffs, {FALSE})
    /\ OthersIdle

NextParse == compose(FALSE)

\* the parser and compose over every small raw diff
ParseSpec == InitParse /\ [][NextParse]_vars

Init == InitWith(ViewerDiffs, BOOLEAN) /\ OthersIdle

Next ==
    \/ \E unexpected \in BOOLEAN : compose(unexpected)
    \/ \E p \in DOMAIN panes : action_line_down(p)
    \/ \E p \in DOMAIN panes : action_line_up(p)
    \/ \E p \in DOMAIN panes, y \in {-1, 1} : manual_scroll(p, y)
    \/ \E p \in DOMAIN panes : action_add_comment(p)
    \/ \E t \in CommentTexts : submit_comment(t)
    \/ cancel_comment
    \/ \E i \in 1..Len(previews) : on_comment_deleted(i)
    \/ \E s \in ReviewStates : select_review_status(s)
    \/ trigger_review_submission
    \/ on_trigger_review_submission
    \/ \E o \in ReviewOutcomes : review_submission_done(o)

\* the viewer on the diffs it is opened on
Spec == Init /\ [][Next]_vars

\* the awaited call of create_new_review ends: it returns or it raises
CallEnds == \E o \in ReviewOutcomes : review_submission_done(o)

\* the viewer when every call of create_new_review ends
LiveSpec == Spec /\ WF_vars(CallEnds)

\* items of a string-list setting in one value that ConfigSpec enumerates
MaxItems == 3

\* the pieces the enumerated strings are made of
Pieces == {"repo1", " repo1 ", "repo2", "", "  "}

\* the strings and lists of the tests
TestStrings ==
    { <<"repo1", " repo2", " repo3">>,
      <<"single-repo">>,
      <<"repo1", " repo2", " repo1", " repo3">>,
      <<"  repo1  ", "  repo2  ">>,
      <<"repo1", " ", " repo2", "  ">>,
      <<"gizmo385/dotfiles", " gizmo385/discord.clj">>,
      <<"">> }

TestLists == { <<"repo1", "repo2", "repo3">>, <<"gizmo385/dotfiles">>, <<>> }

InitConfig ==
    /\ InitWith({<<>>}, {FALSE})
    /\ dv = DvInit /\ drafts = DraftsInit
    /\ \E kind \in {"str", "list"} :
           \/ /\ kind = "str"
              /\ \E pieces \in (SeqsUpTo(Pieces, MaxItems) \ {<<>>}) \cup TestStrings :
                     settings = [input |-> [kind |-> "str", pieces |-> pieces],
                                 value |-> <<>>, parsed |-> FALSE]
           \/ /\ kind = "list"
              /\ \E items \in SeqsUpTo(Pieces, MaxItems) \cup TestLists :
                     settings = [input |-> [kind |-> "list", items |-> items],
                                 value |-> <<>>, parsed |-> FALSE]

NextConfig == validate_setting

\* the validator over every small value of a string-list setting
ConfigSpec == InitConfig /\ [][NextConfig]_vars

\* the drafts that are saved
SavedDrafts == {[repo_full_name |-> r, title |-> "t"] : r \in Repos}

InitDrafts ==
    /\ InitWith({<<>>}, {FALSE})
    /\ OthersIdle

NextDrafts ==
    \/ \E r \in Repos : load_pr_draft(r)
    \/ \E draft \in SavedDrafts : save_pr_draft(draft)
    \/ \E r \in Repos : clear_pr_draft(r)
    \/ \E path \in DraftFiles, state \in DamagedStates : damage_draft_file(path, state)
    \/ chmod_drafts_directory

\* the draft files under saves, clears, loads and damage
DraftsSpec == InitDrafts /\ [][NextDrafts]_vars

\* the diffs both viewers are opened on: one hunk of five lines, a path with
\* two sections around another file, plain text, and a hunk before any file
PatchDiffs ==
    { <<L_DiffFoo, L_H1, L_Ctx, L_Ctx, L_Rem, L_Add, L_Add2>>,
      <<L_DiffFoo, L_H2, L_Ctx, L_DiffBar, L_H2, L_Rem, L_Add, L_DiffFoo, L_H2, L_Add>>,
      <<L_Plain, L_Plain>>,
      <<L_H2, L_Ctx>> }

InitDiffViewer == InitWith(PatchDiffs, BOOLEAN) /\ OthersIdle

NextDiffViewer ==
    \/ compose(FALSE)
    \/ dv_compose
    \/ \E f \in 1..Len(dv.sections) : \E h \in 1..Len(dv.sections[f].hunks) :
           \E side \in HunkSides :
               \E selection_start \in 0..Len(dv.sections[f].hunks[h].lines) :
                   dv_show_comment_for_hunk(f, h, side, selection_start)
    \/ \E i \in 1..Len(dv.comments) : \E text \in {"", "LGTM"} : dv_edit_comment(i, text)
    \/ \E i \in 1..Len(dv.comments) : dv_remove_comment(i)
    \/ \E s \in ReviewStates : dv_select_review_status(s)
    \/ \E o \in ReviewOutcomes : dv_submit_review(o)

\* DiffViewerContainer and SplitDiffViewer.compose on the same raw diff
DiffViewerSpec == InitDiffViewer /\ [][NextDiffViewer]_vars

\* the two viewers on one diff, without comments
InitReview == InitWith({<<L_DiffFoo, L_H2, L_Add>>}, BOOLEAN) /\ OthersIdle

NextReview ==
    \/ compose(FALSE)
    \/ \E s \in ReviewStates : select_review_status(s)
    \/ trigger_review_submission
    \/ on_trigger_review_submission
    \/ \E o \in ReviewOutcomes : review_submission_done(o)
    \/ dv_compose
    \/ \E s \in ReviewStates : dv_select_review_status(s)
    \/ \E o \in ReviewOutcomes : dv_submit_review(o)

\* the review status and the submission of a review in both viewers
ReviewSpec == InitReview /\ [][NextReview]_vars

----------------------------------------------------------------------------
(* Vocabulary of the properties *)

\* the hunk widgets of all file sections, as (section, index) pairs
HunkWidgetIds ==
    UNION {{<<f, h>> : h \in 1..Len(file_sections[f].hunk_widgets)} :
              f \in 1..Len(file_sections)}

WidgetAt(id) == file_sections[id[1]].hunk_widgets[id[2]]

\* the 0-based indexes of the lines of a hunk
LineIndexes(hunk) == 0..(Len(hunk.lines) - 1)

\* raw line i lies in a hunk: a "+", "-" or " " line with a hunk header
\* before it in its file section
InHunk(raw, i) ==
    /\ IsHunkLine(raw[i])
    /\ \E j \in 1..(i - 1) :
          /\ StartsWith(raw[j], "@@")
          /\ \A k \in (j + 1)..(i - 1) : ~StartsWith(raw[k], "diff --git")

\* the last raw line of the hunk whose header is line n
HunkEnd(raw, n) ==
    IF \E k \in (n + 1)..Len(raw) :
           StartsWith(raw[k], "@@") \/ StartsWith(raw[k], "diff --git")
    THEN (CHOOSE k \in (n + 1)..Len(raw) :
              /\ StartsWith(raw[k], "@@") \/ StartsWith(raw[k], "diff --git")
              /\ \A j \in (n + 1)..(k - 1) :
                    ~(StartsWith(raw[j], "@@") \/ StartsWith(raw[j], "diff --git"))) - 1
    ELSE Len(raw)

RECURSIVE SumHunkLines(_, _)
SumHunkLines(hunks, i) ==
    IF i > Len(hunks) THEN 0
    ELSE Len(hunks[i].lines) + SumHunkLines(hunks, i + 1)

RECURSIVE SumFileLines(_, _)
SumFileLines(files, i) ==
    IF i > Len(files) THEN 0
    ELSE SumHunkLines(files[i].hunks, 1) + SumFileLines(files, i + 1)

----------------------------------------------------------------------------
(* C1 *)

\* C1: every review the viewer submits carries one comment per pending
\* comment, in order, whose position is hunk.diff_position + line_number + 1,
\* line_number being the 0-based index in hunk.lines of the line commented on
C1_PositionSent ==
    [][(in_flight = <<>> /\ in_flight' # <<>>) =>
          LET call == in_flight'[1] IN
          /\ Len(call.comments) = Len(pending_comments)
          /\ \A i \in 1..Len(pending_comments) :
                LET c == pending_comments[i] IN
                /\ call.comments[i].position =
                       c.hunk.diff_position + c.line_number + 1
                /\ c.line_number \in LineIndexes(c.hunk) =>
                       c.line_text = Strip(c.hunk.lines[c.line_number + 1])]_vars

\* a review was sent with two comments on different lines
C1_Witness ==
    /\ in_flight # <<>>
    /\ Len(in_flight[1].comments) = 2
    /\ in_flight[1].comments[1].position # in_flight[1].comments[2].position

----------------------------------------------------------------------------
(* C2 *)

\* C2: a position is only ever computed for a line index inside the hunk, so
\* every position sent in a review is that of an existing line of a hunk of
\* the comment's file
C2_PositionsInRange ==
    \A r \in 1..Len(in_flight) : \A i \in 1..Len(in_flight[r].comments) :
        LET c == in_flight[r].comments[i] IN
        \E f \in 1..Len(diff.files) : \E h \in 1..Len(diff.files[f].hunks) :
            /\ diff.files[f].path = c.path
            /\ \E line_index \in LineIndexes(diff.files[f].hunks[h]) :
                   c.position = diff.files[f].hunks[h].diff_position + line_index + 1

----------------------------------------------------------------------------
(* C3 *)

\* C3: within one file of the parsed diff the comment positions increase
\* strictly with (hunk index, line index) in lexicographic order
C3_PositionsIncrease ==
    composed =>
        \A f \in 1..Len(diff.files) :
            \A h1 \in 1..Len(diff.files[f].hunks), h2 \in 1..Len(diff.files[f].hunks) :
                LET hunk1 == diff.files[f].hunks[h1]
                    hunk2 == diff.files[f].hunks[h2]
                IN \A i \in LineIndexes(hunk1), j \in LineIndexes(hunk2) :
                       (h1 < h2 \/ (h1 = h2 /\ i < j)) =>
                           comment_position([hunk |-> hunk1, line_number |-> i])
                               < comment_position([hunk |-> hunk2, line_number |-> j])

\* a file with two hunks, the first not empty and the second of two lines or more
C3_Witness ==
    /\ composed
    /\ \E f \in 1..Len(diff.files) :
           /\ Len(diff.files[f].hunks) >= 2
           /\ Len(diff.files[f].hunks[1].lines) >= 1
           /\ Len(diff.files[f].hunks[2].lines) >= 2

----------------------------------------------------------------------------
(* C4 *)

\* C4: the counts shown for a hunk are the number of its lines that start
\* with "+" and the number that start with "-"; " " lines count as neither,
\* and an empty hunk has the counts (0, 0)
C4_ChangeCounts ==
    composed =>
        \A id \in HunkWidgetIds :
            LET w == WidgetAt(id)
                lines == w.hunk.lines
            IN /\ w.title.additions =
                      Cardinality({i \in 1..Len(lines) : StartsWith(lines[i], "+")})
               /\ w.title.deletions =
                      Cardinality({i \in 1..Len(lines) : StartsWith(lines[i], "-")})
               /\ lines = <<>> => w.title.additions = 0 /\ w.title.deletions = 0

\* the hunk of the example: one context line, one removal, two additions,
\* shown with the counts (2, 1)
C4_Witness ==
    /\ composed
    /\ \E id \in HunkWidgetIds :
           /\ WidgetAt(id).hunk.lines = <<L_Ctx, L_Rem, L_Add, L_Add2>>
           /\ WidgetAt(id).title.additions = 2
           /\ WidgetAt(id).title.deletions = 1

----------------------------------------------------------------------------
(* C5 *)

\* C5: when the parse succeeds, every hunk holds exactly the "+", "-" and " "
\* lines of the raw text between its header and the next header, in order,
\* and the hunks together hold as many lines as the raw text has hunk lines
C5_LinesKept ==
    (composed /\ diff.error = "") =>
        /\ SumFileLines(diff.files, 1) =
               Cardinality({i \in 1..Len(raw_diff) : InHunk(raw_diff, i)})
        /\ \A f \in 1..Len(diff.files) : \A h \in 1..Len(diff.files[f].hunks) :
               LET hunk == diff.files[f].hunks[h] IN
               hunk.lines = SelectSeq(SubSeq(raw_diff, hunk.diff_position + 1,
                                             HunkEnd(raw_diff, hunk.diff_position)),
                                      IsHunkLine)

\* a parsed diff of two files whose hunks hold two lines, from a raw text
\* of seven lines
C5_Witness ==
    /\ composed /\ diff.error = ""
    /\ Len(raw_diff) = 7
    /\ Len(diff.files) = 2
    /\ SumFileLines(diff.files, 1) = 2

----------------------------------------------------------------------------
(* C7 *)

\* the raw text has no "diff --git" header
NoFileHeader(raw) == \A i \in 1..Len(raw) : ~StartsWith(raw[i], "diff --git")

\* a "@@" line does not match the hunk header pattern
BadHunkHeader(raw) ==
    \E i \in 1..Len(raw) : StartsWith(raw[i], "@@") /\ ~HunkHeaderMatch(raw[i]).matched

\* a file section has a hunk line before any hunk header (the ---/+++ lines
\* of the file's header are no hunk lines)
HunkLineBeforeHeader(raw) ==
    \E i \in 1..Len(raw) : \E j \in 1..(i - 1) :
        /\ StartsWith(raw[j], "diff --git")
        /\ \A k \in (j + 1)..(i - 1) :
              ~StartsWith(raw[k], "@@") /\ ~StartsWith(raw[k], "diff --git")
        /\ IsHunkLine(raw[i])
        /\ ~StartsWith(raw[i], "--- ") /\ ~StartsWith(raw[i], "+++ ")

\* C7: a raw diff without a file header, with a malformed hunk header or
\* with a hunk line before any hunk header fails with InvalidDiffFormat and
\* gives no Diff
C7_MalformedRejected ==
    (composed /\ (NoFileHeader(raw_diff) \/ BadHunkHeader(raw_diff)
                     \/ HunkLineBeforeHeader(raw_diff))) =>
        /\ diff.error = "InvalidDiffFormat"
        /\ diff.files = <<>>
        /\ file_sections = <<>>

\* plain text only was rejected
C7_Witness ==
    /\ composed
    /\ Len(raw_diff) = 2
    /\ \A i \in 1..Len(raw_diff) : raw_diff[i] = L_Plain
    /\ diff.error = "InvalidDiffFormat"

----------------------------------------------------------------------------
(* C8 *)

\* the path of the file section raw line i belongs to, or "" before the
\* first file header
SectionPath(raw, i) ==
    IF \E j \in 1..i : StartsWith(raw[j], "diff --git")
    THEN HeaderPath(raw[CHOOSE j \in 1..i :
                            /\ StartsWith(raw[j], "diff --git")
                            /\ \A k \in (j + 1)..i : ~StartsWith(raw[k], "diff --git")])
    ELSE ""

\* C8: the file of a section with a "deleted file mode" line is parsed as
\* deleted, and the viewer shows it as removed, collapsed, with no hunk widget
C8_DeletedFile ==
    (composed /\ diff.error = "") =>
        \A i \in 1..Len(raw_diff) :
            (StartsWith(raw_diff[i], "deleted file mode") /\ SectionPath(raw_diff, i) # "") =>
                \E f \in 1..Len(diff.files) :
                    /\ diff.files[f].path = SectionPath(raw_diff, i)
                    /\ diff.files[f].deleted
                    /\ file_sections[f].path = diff.files[f].path
                    /\ file_sections[f].removed_notice
                    /\ file_sections[f].title.deleted
                    /\ file_sections[f].hunk_widgets = <<>>
                    /\ \A h \in 1..Len(diff.files[f].hunks) :
                           diff.files[f].hunks[h].diff_position \notin DOMAIN panes

\* a deleted file that has a hunk with a line, next to a file that is shown
C8_Witness ==
    /\ composed
    /\ \E f \in 1..Len(diff.files) :
           /\ diff.files[f].deleted
           /\ diff.files[f].hunks # <<>>
           /\ diff.files[f].hunks[1].lines # <<>>
           /\ file_sections[f].hunk_widgets = <<>>
    /\ panes # <<>>

----------------------------------------------------------------------------
(* C9 *)

\* C9: for every hunk shown, a count left out of its header is taken as 1
\* (so a header without new_count is shown as the single line new_start),
\* and the hunk's file_start_line is the header's new_start
C9_HeaderDefaults ==
    composed =>
        \A id \in HunkWidgetIds :
            LET w == WidgetAt(id)
                m == HunkHeaderMatch(w.hunk.header)
                r == HunkHeaderRange(m)
            IN /\ m.matched
               /\ m.old_count = <<>> => r.old_count = 1
               /\ m.new_count = <<>> =>
                      /\ r.new_count = 1
                      /\ w.title.location = <<"Line", m.new_start>>
               /\ m.new_count # <<>> =>
                      /\ r.new_count = m.new_count[1]
                      /\ w.title.location[2] = m.new_start
               /\ w.hunk.file_start_line = m.new_start

\* a hunk whose header leaves out both counts is shown
C9_Witness ==
    /\ composed
    /\ \E id \in HunkWidgetIds :
           /\ WidgetAt(id).hunk.header = L_H2
           /\ WidgetAt(id).hunk.file_start_line = 3
           /\ WidgetAt(id).title.location = <<"Line", 3>>

----------------------------------------------------------------------------
(* C10 *)

\* C10: when the parse fails with InvalidDiffFormat, no exception leaves the
\* viewer; it shows one fallback message and no file section, hunk, pending
\* comments section or submit control, and no review is ever submitted
C10_FallbackOnly ==
    (composed /\ diff.error = "InvalidDiffFormat") =>
        /\ Len(fallback) = 1
        /\ file_sections = <<>>
        /\ panes = <<>>
        /\ comments_header = "None"
        /\ comments_container = "None"
        /\ previews = <<>>
        /\ pending_comments = <<>>
        /\ submit_button = "absent"
        /\ modal = <<>>
        /\ in_flight = <<>>
        /\ escaped = ""

\* the viewer composed a diff with a malformed hunk header
C10_Witness ==
    /\ composed
    /\ BadHunkHeader(raw_diff)
    /\ fallback = <<"error parsing diff - please view on github">>

----------------------------------------------------------------------------
(* C11 *)

\* the raw text has the headers of two files or more
SeveralFiles(raw) ==
    Cardinality({HeaderPath(raw[i]) : i \in {j \in 1..Len(raw) :
                                                StartsWith(raw[j], "diff --git")}}) >= 2

\* C11: when the parse raises an exception that is not InvalidDiffFormat, the
\* viewer shows one generic error and still renders file sections of a diff
\* of several files
C11_OtherFilesRendered ==
    (composed /\ diff.error = "Exception") =>
        /\ fallback = <<"unexpected error">>
        /\ SeveralFiles(raw_diff) => file_sections # <<>>

----------------------------------------------------------------------------
(* C12 *)

\* C12: a comment requested for a line index outside the hunk's lines is
\* ignored, so every pending comment is on a line of its hunk
C12_OutOfRangeIgnored ==
    \A i \in 1..Len(pending_comments) :
        pending_comments[i].line_number \in LineIndexes(pending_comments[i].hunk)

----------------------------------------------------------------------------
(* C13 *)

----------------------------------------------------------------------------
(* C14 *)

\* the hunks of the parsed diff
ParsedHunks ==
    UNION {{diff.files[f].hunks[h] : h \in 1..Len(diff.files[f].hunks)} :
              f \in 1..Len(diff.files)}

\* the hunks the widgets, the modal and the comments of the viewer hold
HeldHunks ==
    {WidgetAt(id).hunk : id \in HunkWidgetIds}
        \cup {modal[i].hunk : i \in 1..Len(modal)}
        \cup {pending_comments[i].hunk : i \in 1..Len(pending_comments)}
        \cup {previews[i].hunk : i \in 1..Len(previews)}

\* C14: once the diff is parsed no step of the viewer changes a hunk: the
\* parsed diff and the rendered sections stay as they are, and every hunk a
\* widget, the modal or a comment holds is a hunk of the parsed diff, with its
\* header, lines, file_start_line and diff_position
C14_HunksFixed ==
    [][composed => /\ diff' = diff
                   /\ file_sections' = file_sections
                   /\ HeldHunks' \subseteq ParsedHunks']_vars

\* after cursor movement a comment on a line below the first is pending and
\* a review is in flight
C14_Witness ==
    /\ in_flight # <<>>
    /\ pending_comments # <<>>
    /\ pending_comments[1].line_number > 0
    /\ pending_comments[1].hunk \in ParsedHunks

----------------------------------------------------------------------------
(* C15 *)

\* the paths of a sequence of files or file sections are pairwise different
PathsUnique(files) ==
    \A i \in 1..Len(files), j \in 1..Len(files) :
        files[i].path = files[j].path => i = j

\* C15: each path occurs once in the parsed diff, and each viewer renders at
\* most one file section per path, however many sections the raw diff has
\* for it
C15_OneSectionPerPath ==
    /\ composed => PathsUnique(diff.files) /\ PathsUnique(file_sections)
    /\ dv.composed => PathsUnique(dv.sections)

\* both viewers rendered a raw diff that has two sections for foo.py around
\* the section of another file
C15_Witness ==
    /\ composed /\ dv.composed
    /\ Cardinality({i \in 1..Len(raw_diff) : raw_diff[i] = L_DiffFoo}) = 2
    /\ Len(file_sections) = 2
    /\ Len(dv.sections) = 2

----------------------------------------------------------------------------
(* C16 *)

\* the comments of DiffViewerContainer that submit_review sends
Sendable == SelectSeq(dv.comments, LAMBDA c : c.text # "" /\ c.is_mounted)

\* the 0-based indexes in hunk.lines of the lines of one side, in order
RECURSIVE SideIndexes(_, _, _)
SideIndexes(hunk, side, i) ==
    IF i > Len(hunk.lines) THEN <<>>
    ELSE IF StartsWith(hunk.lines[i], IF side = "source" THEN "+" ELSE "-")
    THEN SideIndexes(hunk, side, i + 1)
    ELSE <<i - 1>> \o SideIndexes(hunk, side, i + 1)

\* the positions hunk.diff_position + line_index_within_hunk + 1 gives the
\* line a comment is on, diff_position being the 0-based raw index of the
\* first content line after an occurrence of the hunk's header
FormulaPositions(c) ==
    {n + SideIndexes(c.hunk, c.side, 1)[c.selection_start + 1] + 1 :
        n \in {k \in 1..Len(raw_diff) : raw_diff[k] = c.hunk.header}}

\* C16: every position DiffViewerContainer places in a review request is
\* hunk.diff_position + line_index_within_hunk + 1 for the commented line
C16_SingleFormula ==
    [][dv'.request # dv.request =>
          /\ Len(dv'.request[1].comments) = Len(Sendable)
          /\ \A i \in 1..Len(Sendable) :
                 dv'.request[1].comments[i].position \in FormulaPositions(Sendable[i])]_vars

----------------------------------------------------------------------------
(* C17 *)

\* the elements of a list
Elements(seq) == {seq[i] : i \in 1..Len(seq)}

----------------------------------------------------------------------------
(* C18 *)

\* C18: load_pr_draft never raises; it returns None when the file is absent
\* or damaged and the stored draft otherwise, and leaves the files as they are
C18_LoadNeverRaises ==
    [][drafts'.loaded # drafts.loaded =>
          LET call == drafts'.loaded[1]
              file == drafts.files[get_draft_path(call.repo_full_name)]
          IN /\ call.result.raised = ""
             /\ drafts'.files = drafts.files
             /\ file.state # "draft" => call.result.value = <<>>
             /\ file.state = "draft" => call.result.value = file.draft]_vars

----------------------------------------------------------------------------
(* Review submission *)

\* a step in which the viewer handles a TriggerReviewSubmission
Handled == Len(triggers') < Len(triggers)

\* C19: while a call of create_new_review is awaited, a further
\* TriggerReviewSubmission is ignored without effect: the handling of a
\* message that waited during a submission starts no call and leaves the
\* button as it is, no call starts while another is pending, and the button
\* stays disabled as long as the call is pending
C19_FurtherIgnored ==
    [][/\ (Handled /\ Head(triggers).waited) =>
              /\ in_flight' = in_flight
              /\ submit_button' = submit_button
       /\ in_flight # <<>> =>
              /\ in_flight' \in {in_flight, <<>>}
              /\ in_flight' # <<>> => submit_button' = "disabled"]_vars

\* C20: every submission attempt that disabled the button enables it again,
\* whatever create_new_review did, and the button is not disabled when no
\* call is awaited
C20_ButtonReenabled ==
    /\ [](in_flight = <<>> => submit_button # "disabled")
    /\ (submit_button = "disabled") ~> (submit_button = "enabled")

\* create_new_review raised and the button is enabled again
C20_Witness ==
    /\ escaped = "create_new_review"
    /\ in_flight = <<>>
    /\ submit_button = "enabled"

----------------------------------------------------------------------------
(* The cursor of a UnifiedDiffPane *)

\* C21: action_line_down moves the cursor of the pane to the next line and
\* action_line_up to the previous line, by exactly one line, and at the last
\* and at the first line the cursor stays where it is, whatever the scroll
\* offset of the pane and the scroll of the action itself
C21_LineMoves ==
    [][\A p \in DOMAIN panes :
          LET lines == PaneHunk(p).hunk.lines
              old == panes[p].current_line
          IN /\ action_line_down(p) =>
                    panes'[p].current_line =
                        IF old < Len(lines) - 1 THEN old + 1 ELSE old
             /\ action_line_up(p) =>
                    panes'[p].current_line =
                        IF old > 0 THEN old - 1 ELSE old]_vars

----------------------------------------------------------------------------
(* The pending comments section *)

\* C22: in a viewer whose diff parsed, after any additions and deletions of
\* comments the "Pending Comments" header and the container are displayed
\* exactly when the list of pending comments is not empty, and the container
\* holds one CommentPreview for each pending comment and no other
C22_SectionMatchesList ==
    (composed /\ diff.error = "") =>
        /\ comments_header = (IF pending_comments # <<>> THEN "shown" ELSE "hidden")
        /\ comments_container = (IF pending_comments # <<>> THEN "shown" ELSE "hidden")
        /\ Len(previews) = Len(pending_comments)
        /\ \A i \in 1..Len(pending_comments) : previews[i] = pending_comments[i]

\* two comments were added and one of them was deleted
C22_Witness ==
    /\ composed /\ diff.error = ""
    /\ next_id = 3
    /\ Len(pending_comments) = 1
    /\ comments_header = "shown"

----------------------------------------------------------------------------
(* The status of a submitted review *)

NoStatusMessage == "Please select a status for the new review!"

\* C23: a review is submitted only with a selected status, in SplitDiffViewer
\* and in DiffViewerContainer: a submission while the selector holds no
\* selection notifies the error and calls create_new_review not at all, every
\* call carries a selected state, and the state is COMMENTED when the
\* reviewer is the author of the pull request, who has no selector
C23_StatusSelected ==
    [][/\ (Handled /\ submit_button = "enabled" /\ ~reviewer_is_author
             /\ review_status = "NoSelection") =>
              /\ notified' = NoStatusMessage
              /\ in_flight' = in_flight
       /\ (in_flight' # in_flight /\ in_flight' # <<>>) =>
              LET call == in_flight'[Len(in_flight')] IN
              /\ call.review_state \in ReviewStates \ {"NoSelection"}
              /\ reviewer_is_author => call.review_state = "COMMENTED"
       /\ ((\E o \in ReviewOutcomes : dv_submit_review(o)) /\ ~reviewer_is_author
             /\ dv.review_status = "NoSelection") =>
              /\ dv'.notified = NoStatusMessage
              /\ dv'.request = dv.request
       /\ (dv'.request # dv.request) =>
              LET call == dv'.request[1] IN
              /\ call.review_state \in ReviewStates \ {"NoSelection"}
              /\ reviewer_is_author => call.review_state = "COMMENTED"]_vars

\* both viewers refused a submission without a selected status
C23_Witness ==
    /\ ~reviewer_is_author
    /\ review_status = "NoSelection" /\ notified = NoStatusMessage
    /\ in_flight = <<>>
    /\ dv.review_status = "NoSelection" /\ dv.notified = NoStatusMessage
    /\ dv.request = <<>>

----------------------------------------------------------------------------
(* Removed comments of DiffViewerContainer *)

\* the AddCommentContainer objects whose "Remove comment" was pressed
Removed(comments) == {i \in 1..Len(comments) : ~comments[i].is_mounted}

\* C24: once "Remove comment" was pressed on a pending comment of
\* DiffViewerContainer, the comment is no longer in _added_review_comments,
\* and no review submitted afterwards includes it
C24_RemovedNotSubmitted ==
    [][/\ Removed(dv'.comments) = {}
       /\ dv'.request # dv.request =>
              dv'.request[1].comments =
                  DvReviewComments(
                      SelectSeq(dv.comments, LAMBDA c : c.is_mounted), 1)]_vars

----------------------------------------------------------------------------
(* The title of the hunk "@@ -10,5 +12,7 @@ function_name" *)

\* the lines of a hunk that start with the prefix
LinesWith(hunk, prefix) ==
    Cardinality({i \in 1..Len(hunk.lines) : StartsWith(hunk.lines[i], prefix)})

\* the title of every hunk widget with the header L_H3 has the line range
\* from 12 to new_end, the counts of the added and removed lines of the hunk
\* and the context "function_name"
TitleOfExample(new_end) ==
    composed =>
        \A id \in HunkWidgetIds :
            LET w == WidgetAt(id) IN
            w.hunk.header = L_H3 =>
                /\ w.title.location = <<"Lines", 12, new_end>>
                /\ w.title.additions = LinesWith(w.hunk, "+")
                /\ w.title.deletions = LinesWith(w.hunk, "-")
                /\ w.title.context = "function_name"

----------------------------------------------------------------------------
(* The texts of the pending comments *)

\* C26: every pending comment of the viewer has a text with a character that
\* is not whitespace: the modal does not return a blank comment but stays
\* open, and a modal that is cancelled or closed adds no comment and changes
\* nothing else of the viewer
C26_NoBlankComment ==
    [][/\ \A i \in 1..Len(pending_comments') :
              ~IsBlank(pending_comments'[i].comment_text)
       /\ notified' = "Comment cannot be empty!" =>
              /\ modal' = modal /\ modal # <<>>
              /\ pending_comments' = pending_comments
       /\ (modal # <<>> /\ modal' = <<>> /\ Len(pending_comments') = Len(pending_comments)) =>
              UNCHANGED <<pending_comments, previews, comments_header,
                          comments_container, panes, file_sections, diff,
                          fallback, submit_button, review_status, in_flight,
                          triggers, next_id, escaped>>]_vars

\* the modal refused a blank comment in a viewer that holds a comment
C26_Witness ==
    /\ notified = "Comment cannot be empty!"
    /\ modal # <<>>
    /\ Len(pending_comments) = 1

====
